---- MODULE Spec2Model ----
(***************************************************************************)
(* Model of musicalbeeps.beepsplayer.Player.                               *)
(*                                                                         *)
(* Strings are sequences of one-character strings.  Durations are integers *)
(* in microseconds.  Frequencies are pairs [m, s]: m is the frequency in   *)
(* units of 10^-5 Hz before the semitone shift, s the exponent of 2^(1/12) *)
(* applied to it.  A sample array is a sequence of runs [freq, dur, n]: n  *)
(* consecutive samples synthesized for one note.                           *)
(***************************************************************************)
EXTENDS Integers, Sequences, FiniteSets, TLC

\* ---------------------------------------------------------------- bounds
MaxCalls == 2
MaxTuneLen == 2

\* ------------------------------------------------------ program constants
rate == 44100
fade == 800
DefaultOctave == <<"4">>
DefaultDuration == 500000

None == 0

note_frequencies ==
    [ A |-> 2750000, B |-> 3086771, C |-> 1635160, D |-> 1835405,
      E |-> 2060172, F |-> 2182676, G |-> 2449971 ]

\* --------------------------------------------------------- string helpers
Whitespace == {" ", "\n"}

LowerToUpper ==
    [ a |-> "A", b |-> "B", c |-> "C", d |-> "D", e |-> "E", f |-> "F",
      g |-> "G", h |-> "H", p |-> "P", x |-> "X" ]

\* str.upper() on a string of at most one character
Upper(s) ==
    [ i \in 1..Len(s) |->
        IF s[i] \in DOMAIN LowerToUpper THEN LowerToUpper[s[i]] ELSE s[i] ]

\* s[a:b] with 0 <= a <= b
Slice(s, a, b) == SubSeq(s, a + 1, IF b < Len(s) THEN b ELSE Len(s))

RECURSIVE LStrip(_)
LStrip(s) ==
    IF s # <<>> /\ Head(s) \in Whitespace THEN LStrip(Tail(s)) ELSE s

RECURSIVE RStrip(_)
RStrip(s) ==
    IF s # <<>> /\ s[Len(s)] \in Whitespace
    THEN RStrip(SubSeq(s, 1, Len(s) - 1))
    ELSE s

\* str.strip()
Strip(s) == RStrip(LStrip(s))

\* str.split(":"): the list of the pieces between the separators
RECURSIVE Split(_)
Split(s) ==
    IF s = <<>> THEN << <<>> >>
    ELSE LET rest == Split(Tail(s))
         IN  IF Head(s) = ":"
             THEN << <<>> >> \o rest
             ELSE << <<Head(s)>> \o Head(rest) >> \o Tail(rest)

DigitVal ==
    [ c \in {"0", "1", "2", "3", "4", "5", "6", "7", "8", "9"} |->
        CASE c = "0" -> 0 [] c = "1" -> 1 [] c = "2" -> 2 [] c = "3" -> 3
          [] c = "4" -> 4 [] c = "5" -> 5 [] c = "6" -> 6 [] c = "7" -> 7
          [] c = "8" -> 8 [] c = "9" -> 9 ]

IsDigits(s) == \A i \in 1..Len(s) : s[i] \in DOMAIN DigitVal

RECURSIVE DigitsValue(_)
DigitsValue(s) ==
    IF s = <<>> THEN 0
    ELSE 10 * DigitsValue(SubSeq(s, 1, Len(s) - 1)) + DigitVal[s[Len(s)]]

RECURSIVE Pow(_, _)
Pow(b, e) == IF e = 0 THEN 1 ELSE b * Pow(b, e - 1)

\* microseconds per second: the unit of the durations
Micro == Pow(10, 6)

\* a float that is not a number (float("nan")), and the comparisons of floats:
\* every comparison with NaN is false
NaN == 0 - Pow(2, 20)

float_lt(a, b) == a # NaN /\ b # NaN /\ a < b

float_gt(a, b) == a # NaN /\ b # NaN /\ a > b

\* the outcome of a conversion: a value, or an exception
Ok(v) == [ok |-> TRUE, v |-> v]
Raised == [ok |-> FALSE, v |-> 0]

\* int(s) for a string s
int_str(s) ==
    IF s # <<>> /\ IsDigits(s) THEN Ok(DigitsValue(s)) ELSE Raised

\* float(x) for a string x holding [sign] digits [. digits] with at least
\* one digit, surrounded by optional white space; the value in microseconds
FirstIndex(u, c) ==
    IF \E i \in 1..Len(u) : u[i] = c
    THEN CHOOSE i \in 1..Len(u) : u[i] = c /\ \A j \in 1..(i - 1) : u[j] # c
    ELSE Len(u) + 1

FloatMagnitude(ip, fp6) ==
    DigitsValue(ip) * Micro + DigitsValue(fp6) * Pow(10, 6 - Len(fp6))

FloatParts(neg, ip, fp) ==
    IF IsDigits(ip) /\ IsDigits(fp) /\ Len(ip) + Len(fp) > 0
    THEN Ok((IF neg THEN 0 - 1 ELSE 1)
            * FloatMagnitude(ip, SubSeq(fp, 1, IF Len(fp) < 6 THEN Len(fp) ELSE 6)))
    ELSE Raised

FloatUnsigned(neg, u, k) ==
    FloatParts(neg, SubSeq(u, 1, k - 1), SubSeq(u, k + 1, Len(u)))

FloatStripped(t) ==
    IF t # <<>> /\ Head(t) \in {"-", "+"}
    THEN FloatUnsigned(Head(t) = "-", Tail(t), FirstIndex(Tail(t), "."))
    ELSE FloatUnsigned(FALSE, t, FirstIndex(t, "."))

float_str(x) == FloatStripped(Strip(x))

\* int(duration * self.rate): truncation toward zero.  The quotient
\* duration * rate / 10^6 is taken with both sides divided by 100, which
\* keeps the product within 32 bits.
NumSamples(duration) ==
    IF duration >= 0
    THEN (duration * (rate \div 100)) \div (Micro \div 100)
    ELSE 0 - (((0 - duration) * (rate \div 100)) \div (Micro \div 100))

\* ----------------------------------------------------- frequency resolver
\* The resolver works on the fields freq and _valid_note of the Player and
\* writes to stderr: r = [valid, freq, err].

ErrMsg(kind, text) == [kind |-> kind, text |-> text]

ZeroFreq == [m |-> 0, s |-> 0]

set_base_frequency(r, note) ==
    LET letter == Upper(Slice(note, 0, 1))
    IN  IF Len(letter) = 1 /\ letter[1] \in DOMAIN note_frequencies
        THEN [r EXCEPT !.freq = [m |-> note_frequencies[letter[1]], s |-> 0]]
        ELSE [r EXCEPT !.valid = FALSE,
                       !.err = Append(@, ErrMsg("note", Slice(note, 0, 1)))]

\* a __set_octave without the check of the range 0..8
apply_octave_norange(r, octave, octaveValue) ==
    IF octaveValue.ok
    THEN [r EXCEPT !.freq.m = @ * Pow(2, octaveValue.v)]
    ELSE [r EXCEPT !.valid = FALSE,
                   !.err = Append(@, ErrMsg("octave", octave))]

apply_octave(r, octave, octaveValue) ==
    IF octaveValue.ok /\ ~(octaveValue.v < 0 \/ octaveValue.v > 8)
    THEN [r EXCEPT !.freq.m = @ * Pow(2, octaveValue.v)]
    ELSE [r EXCEPT !.valid = FALSE,
                   !.err = Append(@, ErrMsg("octave", octave))]

set_octave(r, octave) ==
    IF ~r.valid THEN r ELSE apply_octave(r, octave, int_str(octave))

set_semitone(r, symbol) ==
    IF ~r.valid THEN r
    ELSE IF symbol = <<"#">> THEN [r EXCEPT !.freq.s = @ + 1]
    ELSE IF symbol = <<"b">> THEN [r EXCEPT !.freq.s = @ - 1]
    ELSE [r EXCEPT !.valid = FALSE,
                   !.err = Append(@, ErrMsg("symbol", symbol))]

\* __calc_frequency after its call of __set_base_frequency
calc_by_length(r1, note) ==
    IF Len(note) = 1 THEN set_octave(r1, DefaultOctave)
    ELSE IF Len(note) = 2
    THEN IF Slice(note, 1, 2) = <<"#">> \/ Slice(note, 1, 2) = <<"b">>
         THEN set_semitone(set_octave(r1, DefaultOctave), Slice(note, 1, 2))
         ELSE set_octave(r1, Slice(note, 1, 2))
    ELSE IF Len(note) = 3
    THEN set_semitone(set_octave(r1, Slice(note, 1, 2)), Slice(note, 2, 3))
    ELSE IF r1.valid
         THEN [r1 EXCEPT !.valid = FALSE,
                         !.err = Append(@, ErrMsg("shape", note))]
         ELSE r1

calc_frequency(r, note) == calc_by_length(set_base_frequency(r, note), note)

\* ------------------------------------------------------------- synthesis
\* generate_note_waveform: np.linspace raises on a negative sample count and
\* np.max raises on an empty array; otherwise the array has one run of
\* int(duration * rate) samples.
note_array(f, duration, n) ==
    IF n < 0 THEN Raised
    ELSE IF n = 0 THEN Raised
    ELSE Ok(<< [freq |-> f, dur |-> duration, n |-> n] >>)

generate_note_waveform(f, duration) ==
    note_array(f, duration, NumSamples(duration))

\* the largest int16 value: the amplitude the peak is normalised to
Int16Max == 32767

\* astype(np.int16) of a value that is not a number is undefined: the values
\* the conversion gives on the builds of numpy
NanCasts == {0, 0 - 32768}

Abs(x) == IF x < 0 THEN 0 - x ELSE x

\* The largest magnitude among the int16 samples of a run of n samples made
\* at volume vol (in hundredths); c is what the cast gives for a nan.  The
\* only sample of a one-sample run is taken at t = 0, where every sine is 0:
\* the peak is 0, 32767 / 0 is inf and 0 * inf is nan.  A longer run has a
\* peak above 0, which the normalisation maps to 32767; the fades scale
\* samples by factors within [0, 1].
run_peak(n, vol, c) ==
    IF n = 1 \/ vol = NaN THEN Abs(c) ELSE (Int16Max * vol) \div 100

Max(a, b) == IF a > b THEN a ELSE b

\* np.concatenate keeps the samples: the largest magnitude of the array is
\* the largest of its runs
RECURSIVE array_peak(_, _, _)
array_peak(arr, vol, c) ==
    IF arr = <<>> THEN 0
    ELSE Max(run_peak(Head(arr).n, vol, c), array_peak(Tail(arr), vol, c))

RECURSIVE BufLen(_)
BufLen(audio) ==
    IF audio = <<>> THEN 0 ELSE Head(audio).n + BufLen(Tail(audio))

\* np.concatenate: raises on an empty list of arrays
RECURSIVE Flatten(_)
Flatten(arrays) ==
    IF arrays = <<>> THEN <<>> ELSE Head(arrays) \o Flatten(Tail(arrays))

concatenate(arrays) ==
    IF arrays = <<>> THEN Raised ELSE Ok(Flatten(arrays))

\* -------------------------------------------------------- tune sequencer
\* the duration of a line: float(duration), or 0.5 when that raises
duration_of(d) == IF d.ok THEN d.v ELSE DefaultDuration

\* a split that stops at the first separator: line.split(":", 1)
ParseLine_maxsplit(line) ==
    IF FirstIndex(line, ":") <= Len(line)
    THEN [note |-> SubSeq(line, 1, FirstIndex(line, ":") - 1),
          duration |-> duration_of(float_str(
              SubSeq(line, FirstIndex(line, ":") + 1, Len(line))))]
    ELSE [note |-> line, duration |-> DefaultDuration]

\* "note, duration = line.split(':')" with its fallback, then
\* "duration = float(duration)" with its fallback
unpack(line, parts) ==
    IF Len(parts) = 2
    THEN [note |-> parts[1], duration |-> duration_of(float_str(parts[2]))]
    ELSE [note |-> line, duration |-> DefaultDuration]

ParseLine(line) == unpack(line, Split(line))

\* One iteration of the loop over the lines.  a = [r, waves, parsed, ok]:
\* the resolver state, notes_waves, the (note, duration) pairs met so far,
\* and whether no exception has been raised.
TuneSynth(a, w) ==
    IF w.ok THEN [a EXCEPT !.waves = Append(@, w.v)]
    ELSE [a EXCEPT !.ok = FALSE]

TuneResolved(a, pl) ==
    IF a.r.valid
    THEN TuneSynth(a, generate_note_waveform(a.r.freq, pl.duration))
    ELSE a

TuneParsed(a, pl) ==
    TuneResolved([a EXCEPT !.r = calc_frequency(a.r, pl.note),
                           !.parsed = Append(@, pl)], pl)

TuneLine(a, line) ==
    IF ~a.ok \/ Len(line) = 0 THEN a ELSE TuneParsed(a, ParseLine(line))

TuneStep(a, rawline) == TuneLine(a, Strip(rawline))

RECURSIVE TuneLoop(_, _)
TuneLoop(a, lines) ==
    IF lines = <<>> THEN a ELSE TuneLoop(TuneStep(a, Head(lines)), Tail(lines))

\* generate_tune_waveform on the resolver state r: the resolver state it
\* leaves, the pairs it parsed, and the array it returns or the exception
tune_result(a, c) ==
    [r |-> a.r, parsed |-> a.parsed,
     ok |-> a.ok /\ c.ok,
     audio |-> IF a.ok /\ c.ok THEN c.v ELSE <<>>]

tune_concat(a) == tune_result(a, concatenate(a.waves))

generate_tune_waveform(r, lines) ==
    tune_concat(TuneLoop([r |-> r, waves |-> <<>>, parsed |-> <<>>,
                          ok |-> TRUE], lines))

\* ----------------------------------------------------------------- inputs
PauseTok == <<"p", "a", "u", "s", "e">>

NoteTokens ==
    { <<"A", "4">>, <<"e">>, <<"D", "b">>, <<"A", "4", "#">>,
      <<"A", "4", "b">>, <<"H">>, <<"A", "9">>, <<"A", "4", "x">>,
      <<"A", "4", "#", "4">>, <<>> }

\* 0 s (no sample), 30 us (one sample) and 0.5 s
Durations == {0, 30, DefaultDuration}

TuneLines ==
    { <<"E", "4", ":", "0", ".", "5">>,
      <<"D", "4", "\n">>,
      <<"H", "4", ":", "0", ".", "5">>,
      <<" ", "\n">>,
      <<"E", "4", ":", "1", ":", "5">>,
      <<"A", "b", ":", "x">>,
      <<"C", ":", "0">> }

RECURSIVE SeqsUpTo(_, _)
SeqsUpTo(S, n) ==
    IF n = 0 THEN { <<>> }
    ELSE LET shorter == SeqsUpTo(S, n - 1)
         IN  shorter \cup { Append(q, e) : q \in shorter, e \in S }

Tunes == SeqsUpTo(TuneLines, MaxTuneLen)

\* volume in hundredths
VolumeValues == {0 - 10, 0, 100, 150, NaN}

\* ------------------------------------------------------------------ state
VARIABLES
    volume, mute_output,        \* PlayerConfig
    freq, valid_note,           \* resolver fields
    play_obj,                   \* the held handle, or None
    destructor_sleep,           \* the shutdown wait estimate
    playing,                    \* output device: handles still playing
    nplayed,                    \* output device: handles issued so far
    sound_n,                    \* output device: samples of the last buffer
    stderr, stdout,             \* what the current call has printed
    pc,                         \* position of the single thread of control
    call,                       \* the current (or last) call and its arguments
    audio,                      \* the array the current call has built
    peak,                       \* the largest magnitude among its samples
    parsed,                     \* the (note, duration) pairs of the tune
    events,                     \* waits, prints, sleeps, dispatches of the call
    result,                     \* how the last call ended
    ncalls

vars == <<volume, mute_output, freq, valid_note, play_obj, destructor_sleep,
          playing, nplayed, sound_n, stderr, stdout, pc, call, audio, peak,
          parsed, events, result, ncalls>>

config == <<volume, mute_output>>
device == <<playing, nplayed, sound_n>>

Call(op, note, d, lines) ==
    [op |-> op, note |-> note, duration |-> d, lines |-> lines]

Ev(kind, d) == [ev |-> kind, d |-> d]

NoCall == Call("none", <<>>, 0, <<>>)

Init ==
    /\ volume = 0 /\ mute_output = FALSE
    /\ freq = ZeroFreq /\ valid_note = TRUE
    /\ play_obj = None /\ destructor_sleep = 0
    /\ playing = {} /\ nplayed = 0 /\ sound_n = 0
    /\ stderr = <<>> /\ stdout = <<>>
    /\ pc = "new" /\ call = NoCall /\ audio = <<>> /\ peak = 0
    /\ parsed = <<>>
    /\ events = <<>> /\ result = "none" /\ ncalls = 0

\* Player.__init__
VolumeOk(v) == ~(float_lt(v, 0) \/ float_gt(v, 100))

Construct(v, m) ==
    /\ pc = "new"
    /\ IF VolumeOk(v)
       THEN /\ volume' = v /\ mute_output' = m
            /\ pc' = "done" /\ result' = "returned"
       ELSE /\ UNCHANGED config
            /\ pc' = "failed" /\ result' = "ValueError"
    /\ call' = Call("init", <<>>, v, <<>>)
    /\ UNCHANGED <<freq, valid_note, play_obj, destructor_sleep, device,
                   stderr, stdout, audio, peak, parsed, events, ncalls>>

\* a __wait_for_prev_sound that returns at once
wait_for_prev_sound_nowait(po, pl) == TRUE

\* __wait_for_prev_sound: the condition under which its loop is left
wait_for_prev_sound(po, pl) == po = None \/ po \notin pl

\* __print_played_note
print_played_note(mute, valid, note, f, d, out) ==
    IF mute \/ ~valid THEN out
    ELSE IF note = PauseTok
    THEN Append(out, [kind |-> "pause", note |-> note, freq |-> ZeroFreq,
                      d |-> d])
    ELSE Append(out, [kind |-> "note", note |-> note, freq |-> f, d |-> d])

\* the start of any call: a fresh record of what the call does
Begin(c) ==
    /\ pc = "idle" /\ ncalls < MaxCalls
    /\ ncalls' = ncalls + 1
    /\ call' = c
    /\ stdout' = <<>> /\ events' = <<>>

\* play_note("pause", d), up to the wait for the previous sound
PlayNotePause(d) ==
    /\ Begin(Call("play_note", PauseTok, d, <<>>))
    /\ valid_note' = TRUE
    /\ stderr' = <<>> /\ audio' = <<>> /\ peak' = 0 /\ parsed' = <<>>
    /\ pc' = "pause_wait" /\ result' = "running"
    /\ UNCHANGED <<config, freq, play_obj, destructor_sleep, device>>

\* a pause that leaves the shutdown wait estimate as it was
pause_effects_keep(mute, d, out, evs) ==
    [ stdout |-> print_played_note(mute, TRUE, PauseTok, ZeroFreq, d, out),
      events |-> evs \o << Ev("wait", 0), Ev("print", d), Ev("sleep", d) >>,
      destructor_sleep |-> destructor_sleep ]

\* play_note("pause", d) from the end of the wait: report, sleep, reset
pause_effects(mute, d, out, evs) ==
    [ stdout |-> print_played_note(mute, TRUE, PauseTok, ZeroFreq, d, out),
      events |-> evs \o << Ev("wait", 0), Ev("print", d), Ev("sleep", d) >>,
      destructor_sleep |-> 0 ]

PauseDone ==
    /\ pc = "pause_wait"
    /\ wait_for_prev_sound(play_obj, playing)
    /\ \E e \in { pause_effects(mute_output, call.duration, stdout, events) } :
           /\ stdout' = e.stdout
           /\ events' = e.events
           /\ destructor_sleep' = e.destructor_sleep
    /\ pc' = "done" /\ result' = "returned"
    /\ UNCHANGED <<config, freq, valid_note, play_obj, device, stderr, call,
                   audio, peak, parsed, ncalls>>

\* play_note(note, d) for a note, up to the wait in __write_stream
PlayNote(note, d) ==
    /\ Begin(Call("play_note", note, d, <<>>))
    /\ \E r \in { calc_frequency(
                      [valid |-> TRUE, freq |-> freq, err |-> <<>>], note) } :
       \E w \in { generate_note_waveform(r.freq, d) } :
           /\ valid_note' = r.valid /\ freq' = r.freq /\ stderr' = r.err
           /\ parsed' = <<>>
           /\ IF ~r.valid
              THEN audio' = <<>> /\ pc' = "done" /\ result' = "returned"
              ELSE IF ~w.ok
              THEN audio' = <<>> /\ pc' = "done" /\ result' = "ValueError"
              ELSE audio' = w.v /\ pc' = "note_wait" /\ result' = "running"
           /\ peak' \in IF r.valid /\ w.ok
                        THEN { array_peak(w.v, volume, c) : c \in NanCasts }
                        ELSE {0}
    /\ UNCHANGED <<config, play_obj, destructor_sleep, device>>

\* sa.play_buffer: the device starts the sound and returns a new handle
play_buffer(buf) ==
    /\ nplayed' = nplayed + 1
    /\ playing' = playing \cup {nplayed + 1}
    /\ sound_n' = BufLen(buf)
    /\ play_obj' = nplayed + 1

\* play_note(note, d) from the end of the wait: dispatch, report, estimate
NoteDispatch ==
    /\ pc = "note_wait"
    /\ wait_for_prev_sound(play_obj, playing)
    /\ play_buffer(audio)
    /\ stdout' = print_played_note(mute_output, valid_note, call.note, freq,
                                   call.duration, stdout)
    /\ events' = events \o << Ev("wait", 0), Ev("dispatch", BufLen(audio)),
                              Ev("print", call.duration) >>
    /\ destructor_sleep' = call.duration
    /\ pc' = "done" /\ result' = "returned"
    /\ UNCHANGED <<config, freq, valid_note, stderr, call, audio, peak,
                   parsed, ncalls>>

\* play_tune(list of lines), up to the wait in __write_stream
PlayTune(lines) ==
    /\ Begin(Call("play_tune", <<>>, 0, lines))
    /\ \E g \in { generate_tune_waveform(
                      [valid |-> valid_note, freq |-> freq, err |-> <<>>],
                      lines) } :
           /\ valid_note' = g.r.valid /\ freq' = g.r.freq
           /\ stderr' = g.r.err
           /\ parsed' = g.parsed
           /\ audio' = g.audio
           /\ peak' \in { array_peak(g.audio, volume, c) : c \in NanCasts }
           /\ IF g.ok
              THEN pc' = "tune_wait" /\ result' = "running"
              ELSE pc' = "done" /\ result' = "ValueError"
    /\ UNCHANGED <<config, play_obj, destructor_sleep, device>>

\* play_tune from the end of the wait: dispatch
TuneDispatch ==
    /\ pc = "tune_wait"
    /\ wait_for_prev_sound(play_obj, playing)
    /\ play_buffer(audio)
    /\ events' = events \o << Ev("wait", 0), Ev("dispatch", BufLen(audio)) >>
    /\ pc' = "done" /\ result' = "returned"
    /\ UNCHANGED <<config, freq, valid_note, destructor_sleep, stderr, stdout,
                   call, audio, peak, parsed, ncalls>>

\* a play_tune that takes a tune of another type for an empty tune: it
\* returns without an error and leaves the validity flag set
PlayTuneBadType_silent ==
    /\ pc = "idle" /\ ncalls < MaxCalls
    /\ ncalls' = ncalls + 1
    /\ call' = Call("play_tune_badtype", <<>>, 0, <<>>)
    /\ result' = "returned" /\ pc' = "done"
    /\ valid_note' = TRUE
    /\ stdout' = <<>> /\ stderr' = <<>> /\ events' = <<>> /\ parsed' = <<>>
    /\ audio' = <<>> /\ peak' = 0
    /\ UNCHANGED <<config, freq, play_obj, destructor_sleep, device>>

\* play_tune(tune) with a tune that is neither a str nor a list
PlayTuneBadType ==
    /\ pc = "idle" /\ ncalls < MaxCalls
    /\ ncalls' = ncalls + 1
    /\ call' = Call("play_tune_badtype", <<>>, 0, <<>>)
    /\ result' = "TypeError" /\ pc' = "done"
    /\ stdout' = <<>> /\ stderr' = <<>> /\ events' = <<>> /\ parsed' = <<>>
    /\ audio' = <<>> /\ peak' = 0
    /\ UNCHANGED <<config, freq, valid_note, play_obj, destructor_sleep,
                   device>>

\* control is back with the caller: the record of the call is dropped
Return ==
    /\ pc = "done"
    /\ pc' = "idle"
    /\ call' = NoCall /\ result' = "none"
    /\ stdout' = <<>> /\ stderr' = <<>> /\ events' = <<>> /\ parsed' = <<>>
    /\ audio' = <<>> /\ peak' = 0
    /\ UNCHANGED <<config, freq, valid_note, play_obj, destructor_sleep,
                   device, ncalls>>

\* the output device: a sound comes to its end
Finish(h) ==
    /\ h \in playing
    /\ playing' = playing \ {h}
    /\ UNCHANGED <<config, freq, valid_note, play_obj, destructor_sleep,
                   nplayed, sound_n, stderr, stdout, pc, call, audio, peak,
                   parsed, events, result, ncalls>>

\* Player.__del__
Del ==
    /\ pc = "idle"
    /\ pc' = "deleted"
    /\ call' = Call("del", <<>>, 0, <<>>)
    /\ events' = << Ev("sleep", destructor_sleep) >>
    /\ result' = "returned"
    /\ UNCHANGED <<config, freq, valid_note, play_obj, destructor_sleep,
                   device, stderr, stdout, audio, peak, parsed, ncalls>>

Next ==
    \/ \E v \in VolumeValues, m \in BOOLEAN : Construct(v, m)
    \/ \E d \in Durations : PlayNotePause(d)
    \/ PauseDone
    \/ \E note \in NoteTokens, d \in Durations : PlayNote(note, d)
    \/ NoteDispatch
    \/ \E lines \in Tunes : PlayTune(lines)
    \/ TuneDispatch
    \/ PlayTuneBadType
    \/ Return
    \/ \E h \in playing : Finish(h)
    \/ Del

Spec == Init /\ [][Next]_vars

\* The single thread of control keeps running: the loop of
\* __wait_for_prev_sound polls the handle without pause, so a call whose wait
\* can end does end.  Every sound the device plays comes to its end.
FairSpec ==
    /\ Spec
    /\ WF_vars(PauseDone) /\ WF_vars(NoteDispatch) /\ WF_vars(TuneDispatch)
    /\ \A h \in 1..MaxCalls : WF_vars(Finish(h))

\* ================================================================= claims
\* What the claims say of a token, a line and a tune, stated from their text.

Letters == {"A", "B", "C", "D", "E", "F", "G"}
OctaveDigits == {"0", "1", "2", "3", "4", "5", "6", "7", "8"}
Accidentals == {"#", "b"}

\* a token that breaks none of the rules on letter, octave, accidental, length
TokenOk(t) ==
    /\ Len(t) \in 1..3
    /\ Upper(<<t[1]>>)[1] \in Letters
    /\ Len(t) = 2 => t[2] \in Accidentals \cup OctaveDigits
    /\ Len(t) = 3 => t[2] \in OctaveDigits /\ t[3] \in Accidentals

\* table[letter] * 2^octave, one semitone up for '#', one down for 'b'
ExpectedFreq(t) ==
    LET octave == IF Len(t) = 1 \/ (Len(t) = 2 /\ t[2] \in Accidentals)
                  THEN 4 ELSE DigitVal[t[2]]
        acc    == IF Len(t) = 2 /\ t[2] \in Accidentals THEN t[2]
                  ELSE IF Len(t) = 3 THEN t[3] ELSE ""
    IN  [ m |-> note_frequencies[Upper(<<t[1]>>)[1]] * Pow(2, octave),
          s |-> IF acc = "#" THEN 1 ELSE IF acc = "b" THEN 0 - 1 ELSE 0 ]

\* the non-blank lines of a tune, stripped
RECURSIVE NonBlank(_)
NonBlank(lines) ==
    IF lines = <<>> THEN <<>>
    ELSE IF Strip(Head(lines)) = <<>> THEN NonBlank(Tail(lines))
    ELSE << Strip(Head(lines)) >> \o NonBlank(Tail(lines))

\* the (token, duration) pairs of a tune
TuneToks(lines) ==
    LET nb == NonBlank(lines) IN [ k \in 1..Len(nb) |-> ParseLine(nb[k]) ]

\* the buffer of one note
NoteBuf(t, d) == << [freq |-> ExpectedFreq(t), dur |-> d, n |-> NumSamples(d)] >>

\* the buffers of the valid tokens, in line order, one after the other
RECURSIVE ValidBufs(_)
ValidBufs(toks) ==
    IF toks = <<>> THEN <<>>
    ELSE (IF TokenOk(Head(toks).note)
          THEN NoteBuf(Head(toks).note, Head(toks).duration) ELSE <<>>)
         \o ValidBufs(Tail(toks))

\* every valid token of the tune has a buffer of at least one sample
Audible(toks) ==
    \A k \in 1..Len(toks) :
        TokenOk(toks[k].note) => NumSamples(toks[k].duration) >= 1

\* generate_tune_waveform has run for the current call
TuneComputed == call.op = "play_tune" /\ pc \in {"tune_wait", "done"}

\* a token has been resolved by the current call, and which one
NoteResolved ==
    call.op = "play_note" /\ call.note # PauseTok /\ pc \in {"note_wait", "done"}

Resolved == NoteResolved \/ (TuneComputed /\ parsed # <<>>)

LastToken == IF NoteResolved THEN call.note ELSE parsed[Len(parsed)].note

\* C1: at most one handle returned by the output device is still playing at
\* any moment, whatever the sequence of play_note and play_tune calls.
C1_AtMostOnePlaying == Cardinality(playing) <= 1

\* a second sound has been dispatched and is playing
C1_Witness == nplayed >= 2 /\ play_obj \in playing

\* C2: for a tune that mixes valid and invalid tokens, generate_tune_waveform
\* returns the concatenation, in line order, of the buffers of all the valid
\* tokens, wherever the invalid tokens sit.
C2_InvalidRemovesOnlyItself ==
    LET toks == TuneToks(call.lines)
    IN  ( /\ TuneComputed
          /\ \E k \in 1..Len(toks) : TokenOk(toks[k].note)
          /\ \E k \in 1..Len(toks) : ~TokenOk(toks[k].note)
          /\ Audible(toks) )
        => (result # "ValueError" /\ audio = ValidBufs(toks))

\* C3: when the Player is discarded while the sound it dispatched last is
\* still playing, __del__ blocks for at least the duration of that sound,
\* whichever operation dispatched it.
C3_DelWaitsOutSound ==
    (pc = "deleted" /\ play_obj # None /\ play_obj \in playing)
    => NumSamples(events[1].d) >= sound_n

\* C4: generate_tune_waveform on a list of lines gives the same outcome
\* whatever was called before on the instance: the outcome a new Player gives.
C4_TuneIndependentOfHistory ==
    TuneComputed
    => LET g0 == generate_tune_waveform(
                     [valid |-> TRUE, freq |-> ZeroFreq, err |-> <<>>],
                     call.lines)
       IN  /\ (result = "ValueError") = ~g0.ok
           /\ audio = g0.audio

\* C5: resolution of a token ends in failure when the token breaks a rule on
\* letter, octave, accidental or length, and in success when it breaks none.
C5_FailureIffRuleBroken ==
    Resolved => (valid_note <=> TokenOk(LastToken))

\* C6: a valid token resolves to table[letter] * 2^octave, shifted by one
\* semitone for an accidental, with the decomposition by length.
C6_FrequencyOfValidToken ==
    (Resolved /\ TokenOk(LastToken))
    => (valid_note /\ freq = ExpectedFreq(LastToken))

\* C7: for a tune whose tokens are all valid, generate_tune_waveform returns
\* the per-note buffers in line order with nothing between them: the length
\* is the sum of the lengths and the k-th run is the buffer of the k-th line.
C7_StraightConcatenation ==
    LET toks == TuneToks(call.lines)
    IN  ( /\ TuneComputed
          /\ toks # <<>>
          /\ \A k \in 1..Len(toks) : TokenOk(toks[k].note)
          /\ Audible(toks) )
        => /\ result # "ValueError"
           /\ Len(audio) = Len(toks)
           /\ \A k \in 1..Len(toks) :
                  audio[k] = NoteBuf(toks[k].note, toks[k].duration)[1]
           /\ BufLen(audio) = BufLen(ValidBufs(toks))

\* the number of ':' in a line
Colons(line) == Cardinality({ i \in 1..Len(line) : line[i] = ":" })

\* a line cut at position k: the token before it, the duration after it
CutAt(line, k) ==
    [note |-> SubSeq(line, 1, k - 1),
     duration |-> duration_of(float_str(SubSeq(line, k + 1, Len(line))))]

\* a line cut at its first ':', or wholly the token when it has none
CutAtFirstColon(line) ==
    IF Colons(line) = 0 THEN [note |-> line, duration |-> DefaultDuration]
    ELSE CutAt(line, FirstIndex(line, ":"))

\* a line cut at its ':' when it has exactly one, wholly the token otherwise
CutAtOnlyColon(line) ==
    IF Colons(line) = 1 THEN CutAt(line, FirstIndex(line, ":"))
    ELSE [note |-> line, duration |-> DefaultDuration]

\* C8 as stated: every non-blank line, also one with more than one ':', is
\* split at its first ':' into token and duration text; blank lines are
\* skipped; the duration is the text parsed as a float, or 0.5.
C8_SplitAtFirstColon ==
    TuneComputed
    => /\ Len(parsed) <= Len(NonBlank(call.lines))
       /\ result # "ValueError" => Len(parsed) = Len(NonBlank(call.lines))
       /\ \A k \in 1..Len(parsed) :
              parsed[k] = CutAtFirstColon(NonBlank(call.lines)[k])

\* C8 as amended: blank lines are skipped; a line with exactly one ':' is
\* split at it into token and duration text; a line with no ':' or with more
\* than one ':' is wholly the token, with the duration 0.5; the duration is
\* the duration text parsed as a float, or 0.5 when it does not parse.
C8_SplitAtOnlyColon ==
    TuneComputed
    => /\ Len(parsed) <= Len(NonBlank(call.lines))
       /\ result # "ValueError" => Len(parsed) = Len(NonBlank(call.lines))
       /\ \A k \in 1..Len(parsed) :
              parsed[k] = CutAtOnlyColon(NonBlank(call.lines)[k])

\* a tune with a line of one ':' whose duration parsed and a line of two ':'
C8_Witness ==
    /\ TuneComputed
    /\ \E k \in 1..Len(parsed) : Colons(parsed[k].note) = 2
    /\ \E k \in 1..Len(parsed) :
           /\ Colons(NonBlank(call.lines)[k]) = 1
           /\ parsed[k].duration # DefaultDuration

\* C9: generate_note_waveform returns int(duration * 44100) samples for every
\* non-negative duration, and an empty buffer, not a failure, when that is 0.
C9_LengthForEveryDuration ==
    (NoteResolved /\ TokenOk(call.note) /\ call.duration >= 0)
    => (result # "ValueError" /\ BufLen(audio) = NumSamples(call.duration))

\* C10: play_note("pause", d) waits until the held handle has stopped
\* playing, then reports the pause, then blocks for d; it builds and
\* dispatches no buffer, leaves the held handle as it was and sets the
\* shutdown wait estimate to 0.
PauseLine(d) ==
    [kind |-> "pause", note |-> PauseTok, freq |-> ZeroFreq, d |-> d]

C10_PauseStep ==
    /\ (pc = "idle" /\ pc' = "pause_wait")
       => (audio' = <<>> /\ UNCHANGED <<play_obj, playing, nplayed, sound_n>>)
    /\ pc = "pause_wait"
       => /\ pc' \in {"pause_wait", "done"}
          /\ audio' = <<>> /\ UNCHANGED <<play_obj, nplayed, sound_n>>
    /\ (pc = "pause_wait" /\ pc' = "done")
       => /\ play_obj = None \/ play_obj \notin playing
          /\ playing' = playing
          /\ events' = << Ev("wait", 0), Ev("print", call.duration),
                          Ev("sleep", call.duration) >>
          /\ stdout' = IF mute_output THEN <<>>
                       ELSE << PauseLine(call.duration) >>
          /\ destructor_sleep' = 0
          /\ result' = "returned"

C10_PauseSequence == [][C10_PauseStep]_vars

\* a pause has ended on a Player that holds a handle and had an estimate
C10_Witness ==
    /\ pc = "done" /\ call.op = "play_note" /\ call.note = PauseTok
    /\ play_obj # None /\ call.duration > 0 /\ ~mute_output

\* a volume within [0, 1]
InUnit(v) == v # NaN /\ 0 <= v /\ v <= 100

\* C11: constructing a Player succeeds exactly when 0 <= volume <= 1 and
\* otherwise fails with a ValueError; the volume of a constructed Player is
\* the value given at construction, no operation modifies volume or
\* mute_output, and the volume stays within [0, 1].
C11_Step ==
    /\ (pc = "new" /\ pc' # "new")
       => /\ (pc' = "done") <=> InUnit(call'.duration)
          /\ pc' # "done" => (pc' = "failed" /\ result' = "ValueError")
          /\ pc' = "done" => volume' = call'.duration
    /\ pc # "new" => UNCHANGED <<volume, mute_output>>
    /\ pc' \notin {"new", "failed"} => InUnit(volume')

C11_VolumeValidated == [][C11_Step]_vars

\* C12: play_tune with an argument that is neither a path string nor a list
\* fails at once with a TypeError raised to the caller: no token is resolved,
\* no buffer is built or dispatched, nothing is waited for, and the held
\* handle, the validity flag and the shutdown wait estimate are unchanged.
C12_Step ==
    (pc = "idle" /\ call'.op = "play_tune_badtype")
    => /\ pc' = "done" /\ result' = "TypeError"
       /\ parsed' = <<>> /\ stderr' = <<>> /\ audio' = <<>> /\ events' = <<>>
       /\ UNCHANGED <<play_obj, valid_note, destructor_sleep, freq,
                      playing, nplayed, sound_n>>

C12_BadTypeFailsAtOnce == [][C12_Step]_vars

\* the call has failed on a Player that holds a playing handle and whose
\* validity flag is cleared
C12_Witness ==
    /\ pc = "done" /\ call.op = "play_tune_badtype"
    /\ play_obj # None /\ play_obj \in playing /\ ~valid_note

\* a call with valid input: a well-formed token, or a tune of well-formed
\* tokens, of durations that give at least one sample
ValidCall(c) ==
    \/ /\ c.op = "play_note" /\ c.note # PauseTok
       /\ TokenOk(c.note) /\ NumSamples(c.duration) >= 1
    \/ /\ c.op = "play_tune" /\ TuneToks(c.lines) # <<>>
       /\ \A k \in 1..Len(TuneToks(c.lines)) : TokenOk(TuneToks(c.lines)[k].note)
       /\ Audible(TuneToks(c.lines))

\* the buffer a call with valid input submits
ExpectedBuf(c) ==
    IF c.op = "play_note" THEN NoteBuf(c.note, c.duration)
    ELSE ValidBufs(TuneToks(c.lines))

Waiting == pc \in {"note_wait", "tune_wait"}

\* C13: buffers reach the output device in the order of the calls: every
\* valid play_note or play_tune call dispatches exactly one buffer, its own,
\* before it returns and before any other call starts; nothing else
\* dispatches, and nothing is queued, dropped or reordered.
C13_Step ==
    /\ (pc = "idle" /\ ValidCall(call'))
       => (pc' \in {"note_wait", "tune_wait"} /\ audio' = ExpectedBuf(call'))
    /\ Waiting
       => /\ pc' \in {pc, "done"}
          /\ UNCHANGED <<call, audio>>
    /\ (Waiting /\ pc' = "done")
       => /\ result' = "returned"
          /\ nplayed' = nplayed + 1
          /\ play_obj' = nplayed' /\ play_obj' \in playing'
          /\ sound_n' = BufLen(audio)
    /\ nplayed' # nplayed => (Waiting /\ pc' = "done")

NoteLine(t, f, d) == [kind |-> "note", note |-> t, freq |-> f, d |-> d]

\* the call has returned to its caller without an exception
Returned(op) == pc = "done" /\ call.op = op /\ result = "returned"

\* what a call does besides reporting: its waits, dispatches and sleeps
Acts == SelectSeq(events, LAMBDA e : e.ev # "print")

\* C14: with mute_output false every note or pause that is played produces
\* exactly one progress line, with its name, frequency and duration; with
\* mute_output true, or for an invalid note, there is none; and the waits and
\* dispatches of a call are the same whatever mute_output is.
C14_OneLinePerPlayedNote ==
    /\ (Returned("play_note") /\ call.note = PauseTok)
       => /\ stdout = IF mute_output THEN <<>>
                      ELSE << PauseLine(call.duration) >>
          /\ Acts = << Ev("wait", 0), Ev("sleep", call.duration) >>
    /\ (Returned("play_note") /\ call.note # PauseTok /\ TokenOk(call.note))
       => /\ stdout = IF mute_output THEN <<>>
                      ELSE << NoteLine(call.note, ExpectedFreq(call.note),
                                       call.duration) >>
          /\ Acts = << Ev("wait", 0), Ev("dispatch", BufLen(audio)) >>
    /\ (Returned("play_note") /\ call.note # PauseTok /\ ~TokenOk(call.note))
       => (stdout = <<>> /\ Acts = <<>>)
    /\ Returned("play_tune")
       => /\ Len(stdout) = IF mute_output THEN 0 ELSE Len(audio)
          /\ \A k \in 1..Len(stdout) :
                 /\ stdout[k].kind = "note"
                 /\ stdout[k].freq = audio[k].freq
                 /\ stdout[k].d = audio[k].dur
          /\ Acts = << Ev("wait", 0), Ev("dispatch", BufLen(audio)) >>

\* the first stage an invalid token fails, in the order letter ("note"),
\* octave, accidental ("symbol"), overall shape
FirstFailedStage(t) ==
    IF Len(t) = 0 \/ Upper(<<t[1]>>)[1] \notin Letters THEN "note"
    ELSE IF Len(t) = 2 THEN "octave"
    ELSE IF Len(t) = 3
    THEN IF t[2] \notin OctaveDigits THEN "octave" ELSE "symbol"
    ELSE "shape"

\* one diagnostic for every invalid token of a sequence of tokens, in order
RECURSIVE Diagnostics(_)
Diagnostics(toks) ==
    IF toks = <<>> THEN <<>>
    ELSE (IF TokenOk(Head(toks).note) THEN <<>>
          ELSE << FirstFailedStage(Head(toks).note) >>)
         \o Diagnostics(Tail(toks))

\* the stages named by the diagnostics of the current call
StagesReported == [ k \in 1..Len(stderr) |-> stderr[k].kind ]

\* C15: every invalid token, given to play_note or met at any position of a
\* tune, produces exactly one diagnostic, which names the first stage that
\* failed; a valid token produces none.
C15_OneDiagnosticPerInvalidToken ==
    /\ NoteResolved
       => StagesReported = Diagnostics(<< [note |-> call.note] >>)
    /\ TuneComputed => StagesReported = Diagnostics(parsed)

\* C16: per-token failures never abort a tune: whatever the number of
\* invalid tokens among the lines, also when no token is valid or the list
\* is empty, play_tune raises no exception and returns normally.
C16_TuneNeverRaises ==
    (TuneComputed /\ Audible(TuneToks(call.lines)))
    => /\ result # "ValueError"
       /\ pc = "done" => result = "returned"

\* a step of a call with valid input, and of the device while a call waits:
\* the call gets as far as the wait; the wait ends only when the held handle
\* has stopped playing; a sound stops only by itself, in a step of the
\* device that is no step of the Player
C17_Step ==
    /\ (pc = "idle" /\ ValidCall(call')) => pc' \in {"note_wait", "tune_wait"}
    /\ (Waiting /\ pc' # pc)
       => /\ play_obj = None \/ play_obj \notin playing
          /\ pc' = "done" /\ result' = "returned"
          /\ nplayed' = nplayed + 1
    /\ ~(playing \subseteq playing')
       => /\ \E h \in playing : playing' = playing \ {h}
          /\ UNCHANGED <<pc, call, play_obj, nplayed, result, events>>

\* C17: provided every dispatched sound stops in the end, every play_note or
\* play_tune call with valid input leaves the wait for the previous sound,
\* dispatches its buffer and returns; no call cancels or cuts short a sound
\* that has been dispatched; and the wait has no timeout: it ends only when
\* the held handle has stopped playing.
C17_ValidCallsComplete ==
    /\ [][C17_Step]_vars
    /\ Waiting ~> (pc = "done" /\ result = "returned")

\* C18: play_note with an invalid token other than "pause" plays nothing and
\* changes no playback state: the call ends at once, without a wait, with no
\* buffer built or dispatched and no progress line, and the held handle, the
\* shutdown wait estimate and the device are as they were.
C18_Step ==
    ( /\ pc = "idle" /\ call'.op = "play_note"
      /\ call'.note # PauseTok /\ ~TokenOk(call'.note) )
    => /\ pc' = "done" /\ result' = "returned"
       /\ audio' = <<>> /\ stdout' = <<>> /\ events' = <<>>
       /\ UNCHANGED <<play_obj, destructor_sleep, playing, nplayed, sound_n>>

C18_InvalidNoteChangesNothing == [][C18_Step]_vars

\* an invalid token has been given to a Player that holds a playing handle
\* and has a shutdown wait estimate
C18_Witness ==
    /\ pc = "done" /\ call.op = "play_note"
    /\ call.note # PauseTok /\ ~TokenOk(call.note)
    /\ play_obj # None /\ play_obj \in playing /\ destructor_sleep > 0

\* C19: every sample of every non-empty buffer made by
\* generate_note_waveform for a Player whose volume is within [0, 1] is an
\* int16 value of magnitude at most 32767 * volume, also when the averaged
\* waveform has peak 0, as in a buffer of one sample.
C19_SamplesWithinVolume ==
    (audio # <<>> /\ InUnit(volume))
    => (peak <= 32767 /\ peak * 100 <= 32767 * volume)

====
